---- MODULE Spec2Model ----
(***************************************************************************)
(* Catalogue API (app/main.py): CRUD handlers for Cliente, Domicilio and   *)
(* Producto over a relational store (app/models.py, app/database.py),      *)
(* request/response validation (app/schemas.py) and the metrics            *)
(* middleware (app/metrics.py).                                            *)
(*                                                                         *)
(* A string is a sequence of one-character strings, so that length bounds  *)
(* and the rfc pattern are computed on it.  A JSON body is a record of     *)
(* JSON fields; a field is absent (Unset), null (Null) or a value (Val).   *)
(***************************************************************************)
EXTENDS Integers, Sequences, FiniteSets, TLC

\* ------------------------------------------------------------------ bounds
MaxId == 2      \* ids a table hands out
MaxRows == 4    \* rows stored in the three tables together

\* ------------------------------------------------------------- JSON fields
Unset == [k |-> "unset"]
Null == [k |-> "null"]
Val(x) == [k |-> "val", v |-> x]

\* ------------------------------------------------------------ sample texts
RS1 == <<"A", "c", "m", "e">>
N1 == <<"T", "e", "s", "t">>
N2 == <<"U", "p", "d">>
RFC1 == <<"A", "B", "C", "1", "2", "3", "4", "5", "6", "A", "B", "1">>
RFC2 == <<"T", "E", "S", "T", "1", "2", "3", "4", "5", "6", "A", "B", "C">>
RFC_LOWER == <<"a", "b", "c", "1", "2", "3", "4", "5", "6", "a", "b", "1">>
RFC_SHORT == <<"A", "B", "C">>
E1 == <<"t", "@", "x", ".", "c">>
E1U == <<"t", "@", "X", ".", "C">>
EBAD == <<"t", "x", ".", "c">>
T1 == <<"5", "5", "5", "1", "2", "3", "4", "5", "6", "7">>
TSHORT == <<"5", "5", "5">>

\* --------------------------------------------------------------- schemas.py
UpperAZ == {"A", "B", "C", "E", "S", "T", "U", "X"}
DigitChars == {"0", "1", "2", "3", "4", "5", "6", "7", "8", "9"}

\* pattern=r'^[A-ZÑ&]{3,4}\d{6}[A-Z\d]{3}$'
RfcPattern(s) ==
    \E n \in {3, 4} :
        /\ Len(s) = n + 9
        /\ \A i \in 1..n : s[i] \in UpperAZ \cup {"Ñ", "&"}
        /\ \A i \in (n + 1)..(n + 6) : s[i] \in DigitChars
        /\ \A i \in (n + 7)..(n + 9) : s[i] \in UpperAZ \cup DigitChars

\* Field(..., min_length=lo, max_length=hi) on a required str
StrField(x, lo, hi) == x.k = "val" /\ Len(x.v) >= lo /\ Len(x.v) <= hi

\* Optional[str] = Field(None, min_length=lo, max_length=hi)
OptStrField(x, lo, hi) == x.k \in {"unset", "null"} \/ StrField(x, lo, hi)

\* EmailStr: one "@", a non-empty local part, a dotted domain
AtPositions(s) == {i \in 1..Len(s) : s[i] = "@"}
AtPos(s) == CHOOSE i \in AtPositions(s) : TRUE
EmailSyntax(s) ==
    /\ Cardinality(AtPositions(s)) = 1
    /\ AtPos(s) > 1
    /\ \E d \in (AtPos(s) + 2)..(Len(s) - 1) : s[d] = "."
    /\ \A d \in (AtPos(s) + 1)..Len(s) :
           s[d] = "." => (d > AtPos(s) + 1 /\ d < Len(s) /\ s[d - 1] # ".")

LowerCase(c) ==
    CASE c = "X" -> "x"
      [] c = "C" -> "c"
      [] c = "T" -> "t"
      [] OTHER -> c

\* EmailStr returns the normalised address: the domain part in lower case
NormalizeEmail(s) ==
    [i \in 1..Len(s) |-> IF i > AtPos(s) THEN LowerCase(s[i]) ELSE s[i]]

EmailStr(x) == x.k = "val" /\ EmailSyntax(x.v)
OptEmailStr(x) == x.k \in {"unset", "null"} \/ EmailStr(x)

ClienteFields ==
    {"razon_social", "nombre_comercial", "rfc", "correo_electronico", "telefono"}

ClienteBase(b) ==
    /\ StrField(b.razon_social, 1, 255)
    /\ StrField(b.nombre_comercial, 1, 255)
    /\ StrField(b.rfc, 12, 13) /\ RfcPattern(b.rfc.v)
    /\ EmailStr(b.correo_electronico)
    /\ StrField(b.telefono, 10, 20)

ClienteCreate(b) == ClienteBase(b)

ClienteUpdate(b) ==
    /\ OptStrField(b.razon_social, 1, 255)
    /\ OptStrField(b.nombre_comercial, 1, 255)
    /\ OptStrField(b.rfc, 12, 13)
    /\ OptEmailStr(b.correo_electronico)
    /\ OptStrField(b.telefono, 10, 20)

\* the value a validated field holds in the pydantic model
Parsed(f, x) == IF f = "correo_electronico" THEN NormalizeEmail(x.v) ELSE x.v

\* variant of model_dump: the fields as submitted, not as validated
model_dump_Raw(b) == [f \in DOMAIN b |-> b[f].v]

\* model_dump() of a validated create body
model_dump(b) == [f \in DOMAIN b |-> Parsed(f, b[f])]

\* model_dump(exclude_unset=True): the fields the request supplied
Supplied(b) == {f \in DOMAIN b : b[f].k # "unset"}
NullFields(b) == {f \in DOMAIN b : b[f].k = "null"}

\* variant of SetAttrs: only the first supplied field is applied
SetAttrs_FirstOnly(row, b) ==
    [f \in DOMAIN row |->
        IF f \in Supplied(b) /\ f = (CHOOSE g \in Supplied(b) : TRUE)
        THEN Parsed(f, b[f]) ELSE row[f]]

\* for key, value in ....items(): setattr(row, key, value), values not None
SetAttrs(row, b) ==
    [f \in DOMAIN row |->
        IF f \in DOMAIN b /\ b[f].k = "val" THEN Parsed(f, b[f]) ELSE row[f]]

\* ClienteResponse(ClienteBase) validated from the returned row
ClienteResponse(row) ==
    /\ Len(row.razon_social) >= 1 /\ Len(row.razon_social) <= 255
    /\ Len(row.nombre_comercial) >= 1 /\ Len(row.nombre_comercial) <= 255
    /\ Len(row.rfc) >= 12 /\ Len(row.rfc) <= 13 /\ RfcPattern(row.rfc)
    /\ EmailSyntax(row.correo_electronico)
    /\ Len(row.telefono) >= 10 /\ Len(row.telefono) <= 20

\* Domicilio
TipoDireccion == {"FACTURACION", "ENVIO"}

DomicilioFields ==
    {"domicilio", "colonia", "municipio", "estado", "tipo_direccion"}

EnumField(x) == x.k = "val" /\ x.v \in TipoDireccion
OptEnumField(x) == x.k \in {"unset", "null"} \/ EnumField(x)

DomicilioBase(b) ==
    /\ StrField(b.domicilio, 1, 500)
    /\ StrField(b.colonia, 1, 255)
    /\ StrField(b.municipio, 1, 255)
    /\ StrField(b.estado, 1, 255)
    /\ EnumField(b.tipo_direccion)

DomicilioCreate(b) == DomicilioBase(b)

DomicilioUpdate(b) ==
    /\ OptStrField(b.domicilio, 1, 500)
    /\ OptStrField(b.colonia, 1, 255)
    /\ OptStrField(b.municipio, 1, 255)
    /\ OptStrField(b.estado, 1, 255)
    /\ OptEnumField(b.tipo_direccion)

\* Producto
ProductoFields == {"nombre", "unidad_medida", "precio_base"}

\* variant of GtZero: a price field without gt=0
GtZero_Unchecked(x) == x.k = "val"

\* Field(..., gt=0)
GtZero(x) == x.k = "val" /\ x.v > 0
OptGtZero(x) == x.k \in {"unset", "null"} \/ GtZero(x)

ProductoBase(b) ==
    /\ StrField(b.nombre, 1, 255)
    /\ StrField(b.unidad_medida, 1, 50)
    /\ GtZero(b.precio_base)

ProductoCreate(b) == ProductoBase(b)

ProductoUpdate(b) ==
    /\ OptStrField(b.nombre, 1, 255)
    /\ OptStrField(b.unidad_medida, 1, 50)
    /\ OptGtZero(b.precio_base)

\* ------------------------------------------------------------ request sets
D1 == <<"C", "a", "l", "l", "e">>
COL == <<"C", "e", "n", "t", "r", "o">>
MUN == <<"G", "d", "l">>
EST == <<"J", "a", "l">>
PN1 == <<"P", "1">>
PZA == <<"P", "Z", "A">>

AllUnset(fields) == [f \in fields |-> Unset]

\* the bodies that differ from base in one field, taken from vals
OneField(base, vals) ==
    UNION {{[base EXCEPT ![f] = v] : v \in vals[f]} : f \in DOMAIN vals}

ClienteBody ==
    [razon_social |-> Val(RS1), nombre_comercial |-> Val(N1), rfc |-> Val(RFC1),
     correo_electronico |-> Val(E1), telefono |-> Val(T1)]

ClienteCreateBodies ==
    {ClienteBody} \cup
    OneField(ClienteBody,
        [razon_social |-> {Val(<<>>)},
         nombre_comercial |-> {Val(N2)},
         rfc |-> {Val(RFC2), Val(RFC_LOWER), Val(RFC_SHORT)},
         correo_electronico |-> {Val(E1U), Val(EBAD)},
         telefono |-> {Unset}])

ClienteUpdateOne ==
    OneField(AllUnset(ClienteFields),
        [razon_social |-> {Val(RS1), Null},
         nombre_comercial |-> {Val(N1), Val(N2)},
         rfc |-> {Val(RFC1), Val(RFC2), Val(RFC_LOWER), Val(RFC_SHORT)},
         correo_electronico |-> {Val(E1U), Val(EBAD)},
         telefono |-> {Val(TSHORT)}])

ClienteUpdateBodies ==
    {AllUnset(ClienteFields)} \cup ClienteUpdateOne \cup
    OneField([AllUnset(ClienteFields) EXCEPT !.nombre_comercial = Val(N2)],
        [rfc |-> {Val(RFC2), Val(RFC_LOWER)},
         correo_electronico |-> {Val(E1U)},
         telefono |-> {Null}])

DomicilioBody ==
    [domicilio |-> Val(D1), colonia |-> Val(COL), municipio |-> Val(MUN),
     estado |-> Val(EST), tipo_direccion |-> Val("FACTURACION")]

DomicilioCreateBodies ==
    {DomicilioBody} \cup
    OneField(DomicilioBody,
        [domicilio |-> {Val(<<>>)},
         tipo_direccion |-> {Val("ENVIO"), Val("OTRO")},
         estado |-> {Unset}])

DomicilioUpdateOne ==
    OneField(AllUnset(DomicilioFields),
        [domicilio |-> {Val(D1), Val(<<>>)},
         colonia |-> {Null},
         tipo_direccion |-> {Val("ENVIO"), Val("FACTURACION"), Val("OTRO")}])

DomicilioUpdateBodies ==
    {AllUnset(DomicilioFields)} \cup DomicilioUpdateOne \cup
    OneField([AllUnset(DomicilioFields) EXCEPT !.tipo_direccion = Val("ENVIO")],
        [domicilio |-> {Val(D1)}, colonia |-> {Null}])

ProductoBody ==
    [nombre |-> Val(PN1), unidad_medida |-> Val(PZA), precio_base |-> Val(100)]

ProductoCreateBodies ==
    {ProductoBody} \cup
    OneField(ProductoBody,
        [nombre |-> {Val(<<>>)},
         unidad_medida |-> {Unset},
         precio_base |-> {Val(250), Val(0), Val(-5)}])

ProductoUpdateOne ==
    OneField(AllUnset(ProductoFields),
        [nombre |-> {Val(PN1), Val(<<>>)},
         precio_base |-> {Val(100), Val(250), Val(0), Null}])

ProductoUpdateBodies ==
    {AllUnset(ProductoFields)} \cup ProductoUpdateOne \cup
    OneField([AllUnset(ProductoFields) EXCEPT !.precio_base = Val(250)],
        [nombre |-> {Val(PN1), Null}])

\* ------------------------------------------------------------------- state
VARIABLES
    backend,     \* the store DATABASE_URL selects
    cloudwatch,  \* MetricsCollector.cloudwatch is a client (TRUE) or None
    clientes,    \* table clientes: id -> row
    domicilios,  \* table domicilios: id -> row (with cliente_id)
    productos,   \* table productos: id -> row
    last_id,     \* the last id each table assigned (postgresql: its sequence)
    pc,          \* "idle", "handled" (the route has answered), "sent"
    req,         \* the request the route is answering
    resp,        \* the response the route produces for it
    deleted,     \* the rows its commit deleted: <<table, id>>
    sent,        \* what metrics_middleware made of that response
    inflight     \* requests served concurrently: session -> its position

store == <<clientes, domicilios, productos>>
vars ==
    <<backend, cloudwatch, clientes, domicilios, productos, last_id, pc, req,
      resp, deleted, sent, inflight>>

Backends == {"sqlite", "postgresql"}

NoReq == [op |-> "none", id |-> 0, body |-> <<>>]
NoResp == [status |-> 0, body |-> <<>>]
NoSent == [endpoint |-> "none", status_code |-> 0, latency |-> "none",
           http_status |-> "none", range |-> "none", status |-> 0]

Max(S) == CHOOSE x \in S : \A y \in S : y <= x

Rows ==
    Cardinality(DOMAIN clientes) + Cardinality(DOMAIN domicilios)
        + Cardinality(DOMAIN productos)

\* the id an INSERT assigns.  sqlite: the column is the rowid, one more than
\* the largest rowid in the table; postgresql: nextval of the SERIAL sequence
NextId(rows, table) ==
    IF backend = "sqlite" THEN Max(DOMAIN rows \cup {0}) + 1
    ELSE last_id[table] + 1

\* the INSERT committed and assigned id
Assigned(table, id) == last_id' = [last_id EXCEPT ![table] = id]

\* the INSERT was rolled back; postgresql's nextval is not undone
RolledBack(table) ==
    last_id' = IF backend = "sqlite" THEN last_id
               ELSE [last_id EXCEPT ![table] = @ + 1]

\* room for one more row (the model's bounds)
CanInsert(rows, table) == Rows < MaxRows /\ NextId(rows, table) <= MaxId

\* variant of RfcTaken: a column without unique=True
RfcTaken_NotUnique(rfc, self) == FALSE

\* unique=True on clientes.rfc
RfcTaken(rfc, self) == \E i \in DOMAIN clientes \ {self} : clientes[i].rfc = rfc

Entity(id, row) == [id |-> id] @@ row

Reply(status, body) == resp' = [status |-> status, body |-> body]

\* response_model=ClienteResponse: a row that fails it is a server error
ReplyCliente(status, id, row) ==
    IF ClienteResponse(row) THEN Reply(status, <<Entity(id, row)>>)
    ELSE Reply(500, <<>>)

\* a request enters its route
Serve(op, id, body) ==
    /\ pc = "idle"
    /\ pc' = "handled"
    /\ req' = [op |-> op, id |-> id, body |-> body]
    /\ UNCHANGED <<backend, cloudwatch, sent, inflight>>

\* a request whose commit deletes nothing
ServeKeep(op, id, body) == Serve(op, id, body) /\ deleted' = {}

\* MetricsCollector.__init__: a client only with credentials in the environment
Environments == [aws_key : BOOLEAN, aws_secret : BOOLEAN, aws_profile : BOOLEAN]
MetricsCollector(env) == (env.aws_key /\ env.aws_secret) \/ env.aws_profile

\* the service starts on empty tables
Boot(env) ==
    /\ backend \in Backends
    /\ cloudwatch = MetricsCollector(env)
    /\ clientes = <<>>
    /\ domicilios = <<>>
    /\ productos = <<>>
    /\ last_id = [clientes |-> 0, domicilios |-> 0, productos |-> 0]
    /\ pc = "idle"
    /\ req = NoReq
    /\ resp = NoResp
    /\ deleted = {}
    /\ sent = NoSent
    /\ inflight = <<>>

\* no AWS credentials in the environment: metrics are logged locally only
Init == Boot([aws_key |-> FALSE, aws_secret |-> FALSE, aws_profile |-> FALSE])

\* any environment
InitMetrics == \E env \in Environments : Boot(env)

\* ------------------------------------------------------------------ health
health_check ==
    /\ ServeKeep("health_check", 0, <<>>)
    /\ Reply(200, <<[status |-> "healthy"]>>)
    /\ UNCHANGED <<store, last_id>>

\* ---------------------------------------------------------- CRUD clientes
crear_cliente(b) ==
    /\ CanInsert(clientes, "clientes")
    /\ ServeKeep("crear_cliente", 0, b)
    /\ IF ~ClienteCreate(b)
       THEN Reply(422, <<>>) /\ UNCHANGED <<store, last_id>>
       ELSE LET row == model_dump(b)
                id == NextId(clientes, "clientes")
            IN  IF RfcTaken(row.rfc, 0)
                THEN /\ Reply(500, <<>>)
                     /\ RolledBack("clientes")
                     /\ UNCHANGED store
                ELSE /\ clientes' = (id :> row) @@ clientes
                     /\ Assigned("clientes", id)
                     /\ ReplyCliente(201, id, row)
                     /\ UNCHANGED <<domicilios, productos>>

\* what GET /clientes/{id} answers on the stored rows
ClienteGet(id) ==
    IF id \notin DOMAIN clientes THEN [status |-> 404, body |-> <<>>]
    ELSE IF ~ClienteResponse(clientes[id]) THEN [status |-> 500, body |-> <<>>]
    ELSE [status |-> 200, body |-> <<Entity(id, clientes[id])>>]

obtener_cliente(id) ==
    /\ ServeKeep("obtener_cliente", id, <<>>)
    /\ resp' = ClienteGet(id)
    /\ UNCHANGED <<store, last_id>>

actualizar_cliente(id, b) ==
    /\ ServeKeep("actualizar_cliente", id, b)
    /\ IF ~ClienteUpdate(b)
       THEN Reply(422, <<>>) /\ UNCHANGED store
       ELSE IF id \notin DOMAIN clientes
       THEN Reply(404, <<>>) /\ UNCHANGED store
       ELSE LET row == SetAttrs(clientes[id], b)
            IN  IF NullFields(b) # {} \/ RfcTaken(row.rfc, id)
                THEN Reply(500, <<>>) /\ UNCHANGED store
                ELSE /\ clientes' = [clientes EXCEPT ![id] = row]
                     /\ ReplyCliente(200, id, row)
                     /\ UNCHANGED <<domicilios, productos>>
    /\ UNCHANGED last_id

\* variant of Cascade: a relationship without the delete cascade
Cascade_NoCascade(id) == DOMAIN domicilios

\* cascade="all, delete-orphan": the rows that stay when client id goes
Cascade(id) == {d \in DOMAIN domicilios : domicilios[d].cliente_id # id}

eliminar_cliente(id) ==
    /\ Serve("eliminar_cliente", id, <<>>)
    /\ IF id \notin DOMAIN clientes
       THEN Reply(404, <<>>) /\ deleted' = {} /\ UNCHANGED store
       ELSE /\ domicilios' = [d \in Cascade(id) |-> domicilios[d]]
            /\ clientes' = [c \in DOMAIN clientes \ {id} |-> clientes[c]]
            /\ deleted' = {<<"clientes", id>>} \cup
                   {<<"domicilios", d>> : d \in DOMAIN domicilios \ Cascade(id)}
            /\ Reply(204, <<>>)
            /\ UNCHANGED productos
    /\ UNCHANGED last_id

\* variant of crear_domicilio: the parent client is not looked up
crear_domicilio_NoLookup(cliente_id, b) ==
    /\ CanInsert(domicilios, "domicilios")
    /\ ServeKeep("crear_domicilio", cliente_id, b)
    /\ IF ~DomicilioCreate(b)
       THEN Reply(422, <<>>) /\ UNCHANGED <<store, last_id>>
       ELSE LET row == model_dump(b) @@ [cliente_id |-> cliente_id]
                id == NextId(domicilios, "domicilios")
            IN  /\ Assigned("domicilios", id)
                /\ domicilios' = (id :> row) @@ domicilios
                /\ Reply(201, <<Entity(id, row)>>)
                /\ UNCHANGED <<clientes, productos>>

\* -------------------------------------------------------- CRUD domicilios
crear_domicilio(cliente_id, b) ==
    /\ CanInsert(domicilios, "domicilios")
    /\ ServeKeep("crear_domicilio", cliente_id, b)
    /\ IF ~DomicilioCreate(b)
       THEN Reply(422, <<>>) /\ UNCHANGED <<store, last_id>>
       ELSE IF cliente_id \notin DOMAIN clientes
       THEN Reply(404, <<>>) /\ UNCHANGED <<store, last_id>>
       ELSE LET row == model_dump(b) @@ [cliente_id |-> cliente_id]
                id == NextId(domicilios, "domicilios")
            IN  /\ Assigned("domicilios", id)
                /\ domicilios' = (id :> row) @@ domicilios
                /\ Reply(201, <<Entity(id, row)>>)
                /\ UNCHANGED <<clientes, productos>>

\* what GET /domicilios/{id} answers on the stored rows
DomicilioGet(id) ==
    IF id \notin DOMAIN domicilios THEN [status |-> 404, body |-> <<>>]
    ELSE [status |-> 200, body |-> <<Entity(id, domicilios[id])>>]

obtener_domicilio(id) ==
    /\ ServeKeep("obtener_domicilio", id, <<>>)
    /\ resp' = DomicilioGet(id)
    /\ UNCHANGED <<store, last_id>>

actualizar_domicilio(id, b) ==
    /\ ServeKeep("actualizar_domicilio", id, b)
    /\ IF ~DomicilioUpdate(b)
       THEN Reply(422, <<>>) /\ UNCHANGED store
       ELSE IF id \notin DOMAIN domicilios
       THEN Reply(404, <<>>) /\ UNCHANGED store
       ELSE LET row == SetAttrs(domicilios[id], b)
            IN  IF NullFields(b) # {}
                THEN Reply(500, <<>>) /\ UNCHANGED store
                ELSE /\ domicilios' = [domicilios EXCEPT ![id] = row]
                     /\ Reply(200, <<Entity(id, row)>>)
                     /\ UNCHANGED <<clientes, productos>>
    /\ UNCHANGED last_id

\* variant of eliminar_domicilio: 204 is answered and the row stays
eliminar_domicilio_Soft(id) ==
    /\ Serve("eliminar_domicilio", id, <<>>)
    /\ IF id \notin DOMAIN domicilios
       THEN Reply(404, <<>>) /\ deleted' = {} /\ UNCHANGED store
       ELSE /\ deleted' = {}
            /\ Reply(204, <<>>)
            /\ UNCHANGED store
    /\ UNCHANGED last_id

eliminar_domicilio(id) ==
    /\ Serve("eliminar_domicilio", id, <<>>)
    /\ IF id \notin DOMAIN domicilios
       THEN Reply(404, <<>>) /\ deleted' = {} /\ UNCHANGED store
       ELSE /\ domicilios' = [d \in DOMAIN domicilios \ {id} |-> domicilios[d]]
            /\ deleted' = {<<"domicilios", id>>}
            /\ Reply(204, <<>>)
            /\ UNCHANGED <<clientes, productos>>
    /\ UNCHANGED last_id

\* --------------------------------------------------------- CRUD productos
crear_producto(b) ==
    /\ CanInsert(productos, "productos")
    /\ ServeKeep("crear_producto", 0, b)
    /\ IF ~ProductoCreate(b)
       THEN Reply(422, <<>>) /\ UNCHANGED <<store, last_id>>
       ELSE LET row == model_dump(b)
                id == NextId(productos, "productos")
            IN  /\ Assigned("productos", id)
                /\ productos' = (id :> row) @@ productos
                /\ Reply(201, <<Entity(id, row)>>)
                /\ UNCHANGED <<clientes, domicilios>>

\* what GET /productos/{id} answers on the stored rows
ProductoGet(id) ==
    IF id \notin DOMAIN productos THEN [status |-> 404, body |-> <<>>]
    ELSE [status |-> 200, body |-> <<Entity(id, productos[id])>>]

obtener_producto(id) ==
    /\ ServeKeep("obtener_producto", id, <<>>)
    /\ resp' = ProductoGet(id)
    /\ UNCHANGED <<store, last_id>>

actualizar_producto(id, b) ==
    /\ ServeKeep("actualizar_producto", id, b)
    /\ IF ~ProductoUpdate(b)
       THEN Reply(422, <<>>) /\ UNCHANGED store
       ELSE IF id \notin DOMAIN productos
       THEN Reply(404, <<>>) /\ UNCHANGED store
       ELSE LET row == SetAttrs(productos[id], b)
            IN  IF NullFields(b) # {}
                THEN Reply(500, <<>>) /\ UNCHANGED store
                ELSE /\ productos' = [productos EXCEPT ![id] = row]
                     /\ Reply(200, <<Entity(id, row)>>)
                     /\ UNCHANGED <<clientes, domicilios>>
    /\ UNCHANGED last_id

\* variant of eliminar_producto: deleting an absent row is not an error
eliminar_producto_Idempotent(id) ==
    /\ Serve("eliminar_producto", id, <<>>)
    /\ productos' = [p \in DOMAIN productos \ {id} |-> productos[p]]
    /\ deleted' = {<<"productos", p>> : p \in DOMAIN productos \cap {id}}
    /\ Reply(204, <<>>)
    /\ UNCHANGED <<clientes, domicilios>>
    /\ UNCHANGED last_id

eliminar_producto(id) ==
    /\ Serve("eliminar_producto", id, <<>>)
    /\ IF id \notin DOMAIN productos
       THEN Reply(404, <<>>) /\ deleted' = {} /\ UNCHANGED store
       ELSE /\ productos' = [p \in DOMAIN productos \ {id} |-> productos[p]]
            /\ deleted' = {<<"productos", id>>}
            /\ Reply(204, <<>>)
            /\ UNCHANGED <<clientes, domicilios>>
    /\ UNCHANGED last_id

\* ------------------------------------------------------------------ lists
\* skip: int = 0, limit: int = 100
DefaultSkip == 0
DefaultLimit == 100

\* the orders of the ids in S
Orders(S) ==
    {o \in [1..Cardinality(S) -> S] :
        \A i, j \in 1..Cardinality(S) : o[i] = o[j] => i = j}

\* db.query(...) without order_by: sqlite scans the table by rowid, which is
\* the id; postgresql returns the rows in an order of its choosing
Query(rows) ==
    IF backend = "sqlite"
    THEN {o \in Orders(DOMAIN rows) :
              \A i, j \in 1..Len(o) : i < j => o[i] < o[j]}
    ELSE Orders(DOMAIN rows)

\* .offset(skip).limit(limit).all()
OffsetLimit(o, skip, limit) ==
    [k \in 1..(IF Len(o) - skip < limit
               THEN (IF Len(o) > skip THEN Len(o) - skip ELSE 0)
               ELSE limit) |-> o[skip + k]]

listar_clientes(skip, limit, o) ==
    /\ o \in Query(clientes)
    /\ ServeKeep("listar_clientes", 0, [skip |-> skip, limit |-> limit])
    /\ LET page == OffsetLimit(o, skip, limit)
       IN  IF \E k \in 1..Len(page) : ~ClienteResponse(clientes[page[k]])
           THEN Reply(500, <<>>)
           ELSE Reply(200, [k \in 1..Len(page) |->
                               Entity(page[k], clientes[page[k]])])
    /\ UNCHANGED <<store, last_id>>

listar_productos(skip, limit, o) ==
    /\ o \in Query(productos)
    /\ ServeKeep("listar_productos", 0, [skip |-> skip, limit |-> limit])
    /\ LET page == OffsetLimit(o, skip, limit)
       IN  Reply(200, [k \in 1..Len(page) |->
                          Entity(page[k], productos[page[k]])])
    /\ UNCHANGED <<store, last_id>>

\* ------------------------------------------------------------- metrics.py
\* what a put_metric_data call does; without a client it is never called
PutOutcomes ==
    IF cloudwatch
    THEN {"ok", "ClientError", "EndpointConnectionError", "NoCredentialsError"}
    ELSE {"not called"}

get_http_status_range(status_code) ==
    IF 200 <= status_code /\ status_code < 300 THEN "2xx"
    ELSE IF 400 <= status_code /\ status_code < 500 THEN "4xx"
    ELSE IF 500 <= status_code /\ status_code < 600 THEN "5xx"
    ELSE "other"

\* if self.cloudwatch: try: put_metric_data(...) except ClientError: log
PutMetric(outcome) ==
    IF ~cloudwatch \/ outcome = "not called" THEN "logged"
    ELSE IF outcome = "ok" THEN "put"
    ELSE IF outcome = "ClientError" THEN "logged"
    ELSE "raised"

record_latency(outcome) == PutMetric(outcome)

record_http_status(outcome) == PutMetric(outcome)

\* call_next has returned the route's response (or raised its exception)
metrics_middleware(o1, o2) ==
    /\ pc = "handled"
    /\ pc' = "sent"
    /\ LET raised == resp.status = 500
           latency == IF raised THEN "skipped" ELSE record_latency(o1)
           http_status ==
               IF raised \/ latency = "raised" THEN "skipped"
               ELSE record_http_status(o2)
       IN  sent' = [endpoint |-> req.op,
                    status_code |-> resp.status,
                    latency |-> latency,
                    http_status |-> http_status,
                    range |-> IF http_status = "skipped" THEN "none"
                              ELSE get_http_status_range(resp.status),
                    status |-> IF latency = "raised" \/ http_status = "raised"
                               THEN 500 ELSE resp.status]
    /\ req' = NoReq
    /\ resp' = NoResp
    /\ deleted' = {}
    /\ UNCHANGED <<backend, cloudwatch, store, last_id, inflight>>

\* the request is over: its session is closed
get_db ==
    /\ pc = "sent"
    /\ pc' = "idle"
    /\ sent' = NoSent
    /\ UNCHANGED <<backend, cloudwatch, store, last_id, req, resp, deleted,
                   inflight>>

\* ------------------------------------------------------------ the service
Ids == 1..MaxId

Next ==
    \/ health_check
    \/ \E b \in ClienteCreateBodies : crear_cliente(b)
    \/ \E id \in Ids : obtener_cliente(id)
    \/ \E id \in Ids, b \in ClienteUpdateBodies : actualizar_cliente(id, b)
    \/ \E id \in Ids : eliminar_cliente(id)
    \/ \E c \in Ids, b \in DomicilioCreateBodies : crear_domicilio(c, b)
    \/ \E id \in Ids : obtener_domicilio(id)
    \/ \E id \in Ids, b \in DomicilioUpdateBodies : actualizar_domicilio(id, b)
    \/ \E id \in Ids : eliminar_domicilio(id)
    \/ \E b \in ProductoCreateBodies : crear_producto(b)
    \/ \E id \in Ids : obtener_producto(id)
    \/ \E id \in Ids, b \in ProductoUpdateBodies : actualizar_producto(id, b)
    \/ \E id \in Ids : eliminar_producto(id)
    \/ \E o1 \in PutOutcomes, o2 \in PutOutcomes : metrics_middleware(o1, o2)
    \/ get_db

Spec == Init /\ [][Next]_vars

\* the middleware around the routes that touch one table, in any environment
NextMetrics ==
    \/ health_check
    \/ \E b \in ProductoCreateBodies : crear_producto(b)
    \/ \E id \in Ids : obtener_producto(id)
    \/ \E id \in Ids, b \in ProductoUpdateBodies : actualizar_producto(id, b)
    \/ \E id \in Ids : eliminar_producto(id)
    \/ \E o1 \in PutOutcomes, o2 \in PutOutcomes : metrics_middleware(o1, o2)
    \/ get_db

SpecMetrics == InitMetrics /\ [][NextMetrics]_vars

\* ------------------------------------------------------------------ claims
\* C1: after eliminar_cliente answers 204 for client C, no Domicilio with
\* cliente_id = C is stored: every Domicilio of C is removed with C, and the
\* Domicilios of other clients are left as they were.
C1_CascadeDelete ==
    [][(pc' = "handled" /\ req'.op = "eliminar_cliente" /\ resp'.status = 204) =>
        /\ req'.id \notin DOMAIN clientes'
        /\ \A d \in DOMAIN domicilios' : domicilios'[d].cliente_id # req'.id
        /\ DOMAIN domicilios' \subseteq DOMAIN domicilios
        /\ \A d \in DOMAIN domicilios :
              domicilios[d].cliente_id # req'.id =>
                  d \in DOMAIN domicilios' /\ domicilios'[d] = domicilios[d]]_vars

\* a client that owned a Domicilio was deleted while another client's stays
C1_Witness ==
    /\ pc = "handled" /\ req.op = "eliminar_cliente" /\ resp.status = 204
    /\ \E d \in Ids : <<"domicilios", d>> \in deleted
    /\ domicilios # <<>>

\* C2: no two stored clients ever have the same rfc, and a create or update
\* that would give a client the rfc another stored client holds leaves the
\* store as it was.
C2_RfcUnique ==
    /\ [](\A i \in DOMAIN clientes : \A j \in DOMAIN clientes :
             i # j => clientes[i].rfc # clientes[j].rfc)
    /\ [][(/\ pc' = "handled"
           /\ req'.op \in {"crear_cliente", "actualizar_cliente"}
           /\ req'.body.rfc.k = "val"
           /\ \E c \in DOMAIN clientes \ {req'.id} :
                  clientes[c].rfc = req'.body.rfc.v)
          => store' = store]_vars

\* an update asked for the rfc of the other stored client
C2_Witness ==
    /\ pc = "handled" /\ req.op = "actualizar_cliente"
    /\ req.id \in DOMAIN clientes
    /\ ClienteUpdate(req.body) /\ req.body.rfc.k = "val"
    /\ \E c \in DOMAIN clientes \ {req.id} : clientes[c].rfc = req.body.rfc.v

\* C3: every stored product has precio_base > 0, and a crear_producto whose
\* precio_base is zero or negative is rejected (422) and stores nothing.
C3_PrecioPositivo ==
    /\ [](\A p \in DOMAIN productos : productos[p].precio_base > 0)
    /\ [][(/\ pc' = "handled"
           /\ req'.op = "crear_producto"
           /\ req'.body.precio_base.k = "val"
           /\ req'.body.precio_base.v <= 0)
          => resp'.status = 422 /\ store' = store]_vars

\* a product is stored and a create with a non-positive price was refused
C3_Witness ==
    /\ pc = "handled" /\ req.op = "crear_producto"
    /\ req.body.precio_base.k = "val" /\ req.body.precio_base.v <= 0
    /\ productos # <<>>

\* the table a route reads and writes
GetOps == {"obtener_cliente", "obtener_domicilio", "obtener_producto"}
UpdateOps == {"actualizar_cliente", "actualizar_domicilio", "actualizar_producto"}
DeleteOps == {"eliminar_cliente", "eliminar_domicilio", "eliminar_producto"}
CreateOps == {"crear_cliente", "crear_domicilio", "crear_producto"}

TableName(op) ==
    IF op \in {"crear_cliente", "obtener_cliente", "actualizar_cliente",
               "eliminar_cliente"} THEN "clientes"
    ELSE IF op \in {"crear_domicilio", "obtener_domicilio", "actualizar_domicilio",
                    "eliminar_domicilio"} THEN "domicilios"
    ELSE "productos"

Table(op) ==
    IF TableName(op) = "clientes" THEN clientes
    ELSE IF TableName(op) = "domicilios" THEN domicilios
    ELSE productos

\* the request body passes the route's request model
BodyAccepted(op, b) ==
    CASE op = "crear_cliente" -> ClienteCreate(b)
      [] op = "actualizar_cliente" -> ClienteUpdate(b)
      [] op = "crear_domicilio" -> DomicilioCreate(b)
      [] op = "actualizar_domicilio" -> DomicilioUpdate(b)
      [] op = "crear_producto" -> ProductoCreate(b)
      [] op = "actualizar_producto" -> ProductoUpdate(b)
      [] OTHER -> TRUE

\* C4 as stated: a get-by-id, update or delete whose id names no stored
\* entity of the type answers 404 and leaves the store unchanged.
C4_Original ==
    [][(/\ pc' = "handled"
        /\ req'.op \in GetOps \cup UpdateOps \cup DeleteOps
        /\ req'.id \notin DOMAIN Table(req'.op))
       => resp'.status = 404 /\ store' = store]_vars

\* C4: a get-by-id or delete, or an update whose body passes validation,
\* whose id names no stored entity of the type answers 404 and leaves the
\* store unchanged (an update with an invalid body answers 422 first).
C4_NotFound ==
    [][(/\ pc' = "handled"
        /\ req'.op \in GetOps \cup UpdateOps \cup DeleteOps
        /\ BodyAccepted(req'.op, req'.body)
        /\ req'.id \notin DOMAIN Table(req'.op))
       => resp'.status = 404 /\ store' = store]_vars

\* an update with a valid body named a Domicilio that is not stored, while
\* other Domicilios are
C4_Witness ==
    /\ pc = "handled" /\ req.op = "actualizar_domicilio"
    /\ DomicilioUpdate(req.body) /\ Supplied(req.body) # {}
    /\ req.id \notin DOMAIN domicilios /\ domicilios # <<>>
    /\ resp.status = 404

\* the value a supplied field is stored as: an email in its normalised form
StoredAs(f, v) == IF f = "correo_electronico" THEN NormalizeEmail(v) ELSE v

\* the table of a route after the step
TableAfter(op) ==
    IF TableName(op) = "clientes" THEN clientes'
    ELSE IF TableName(op) = "domicilios" THEN domicilios'
    ELSE productos'

\* a successful update changed row id of its table to new, and nothing else
UpdatedOnly(op, id, new) ==
    /\ id \in DOMAIN Table(op)
    /\ TableAfter(op) = [Table(op) EXCEPT ![id] = new]
    /\ TableName(op) # "clientes" => clientes' = clientes
    /\ TableName(op) # "domicilios" => domicilios' = domicilios
    /\ TableName(op) # "productos" => productos' = productos

\* C5 as stated: a successful update sets exactly the supplied fields to the
\* supplied values; unsupplied fields, the id, a Domicilio's cliente_id and
\* every other stored entity keep their values.
C5_Original ==
    [][(pc' = "handled" /\ req'.op \in UpdateOps /\ resp'.status = 200) =>
        /\ req'.id \in DOMAIN Table(req'.op)
        /\ UpdatedOnly(req'.op, req'.id,
               [f \in DOMAIN Table(req'.op)[req'.id] |->
                   IF f \in Supplied(req'.body) THEN req'.body[f].v
                   ELSE Table(req'.op)[req'.id][f]])]_vars

\* C5: a successful update sets exactly the supplied fields, each to the
\* supplied value as validated (correo_electronico is stored in normalised
\* form, its domain in lower case); unsupplied fields, the id, a Domicilio's
\* cliente_id and every other stored entity keep their values.
C5_PartialUpdate ==
    [][(pc' = "handled" /\ req'.op \in UpdateOps /\ resp'.status = 200) =>
        /\ req'.id \in DOMAIN Table(req'.op)
        /\ UpdatedOnly(req'.op, req'.id,
               [f \in DOMAIN Table(req'.op)[req'.id] |->
                   IF f \in Supplied(req'.body) THEN StoredAs(f, req'.body[f].v)
                   ELSE Table(req'.op)[req'.id][f]])]_vars

\* a client was updated in two of its five fields while another client and a
\* Domicilio are stored
C5_Witness ==
    /\ pc = "handled" /\ req.op = "actualizar_cliente" /\ resp.status = 200
    /\ Supplied(req.body) = {"nombre_comercial", "rfc"}
    /\ clientes[req.id].rfc = RFC2 /\ clientes[req.id].razon_social = RS1
    /\ Cardinality(DOMAIN clientes) = 2
    /\ domicilios # <<>>

\* exactly one Domicilio was stored, for the client of the path and with the
\* fields of the body; those stored before are as they were
OneDomicilioStored(cliente_id, b) ==
    \E d \in DOMAIN domicilios' \ DOMAIN domicilios :
        /\ DOMAIN domicilios' = DOMAIN domicilios \cup {d}
        /\ \A e \in DOMAIN domicilios : domicilios'[e] = domicilios[e]
        /\ domicilios'[d].cliente_id = cliente_id
        /\ \A f \in DomicilioFields : domicilios'[d][f] = b[f].v

\* C6 as stated: crear_domicilio for client C answers 404 and stores nothing
\* if no client C exists, and otherwise answers 201 and stores exactly one
\* new Domicilio with cliente_id = C and the fields of the body.
C6_Original ==
    [][(pc' = "handled" /\ req'.op = "crear_domicilio") =>
        IF req'.id \notin DOMAIN clientes
        THEN resp'.status = 404 /\ domicilios' = domicilios
        ELSE /\ resp'.status = 201
             /\ OneDomicilioStored(req'.id, req'.body)]_vars

\* C6: crear_domicilio for client C with a body that passes validation
\* answers 404 and stores nothing if no client C exists, and otherwise answers
\* 201 and stores exactly one new Domicilio with cliente_id = C from the path
\* and the fields of the body (a body that fails validation answers 422).
C6_CrearDomicilio ==
    [][(pc' = "handled" /\ req'.op = "crear_domicilio"
            /\ DomicilioCreate(req'.body)) =>
        IF req'.id \notin DOMAIN clientes
        THEN resp'.status = 404 /\ store' = store
        ELSE /\ resp'.status = 201
             /\ OneDomicilioStored(req'.id, req'.body)
             /\ clientes' = clientes /\ productos' = productos]_vars

\* a second Domicilio was created, for client 2
C6_Witness ==
    /\ pc = "handled" /\ req.op = "crear_domicilio" /\ resp.status = 201
    /\ req.id = 2 /\ Cardinality(DOMAIN domicilios) = 2

\* the constraint ClienteBase, DomicilioBase and ProductoBase state for the
\* value v of field f: a length bound, the rfc pattern, enum membership of
\* tipo_direccion, a positive price
FieldConstraint(f, v) ==
    CASE f \in {"razon_social", "nombre_comercial", "colonia", "municipio",
                "estado", "nombre"} -> Len(v) >= 1 /\ Len(v) <= 255
      [] f = "rfc" -> Len(v) >= 12 /\ Len(v) <= 13 /\ RfcPattern(v)
      [] f = "telefono" -> Len(v) >= 10 /\ Len(v) <= 20
      [] f = "domicilio" -> Len(v) >= 1 /\ Len(v) <= 500
      [] f = "unidad_medida" -> Len(v) >= 1 /\ Len(v) <= 50
      [] f = "tipo_direccion" -> v \in TipoDireccion
      [] f = "precio_base" -> v > 0
      [] OTHER -> TRUE

\* the body carries a value that violates the constraint of its field
Violates(b) ==
    \E f \in DOMAIN b : b[f].k = "val" /\ ~FieldConstraint(f, b[f].v)

\* C7 as stated: a create or update request whose body violates a field-level
\* constraint (length bound, tax ID pattern, positive price, enum membership)
\* is answered with 422 and the store is the same after the request as before.
C7_Original ==
    [][(pc' = "handled" /\ req'.op \in CreateOps \cup UpdateOps
            /\ Violates(req'.body))
        => resp'.status = 422 /\ store' = store]_vars

\* C8 as stated: whether or not the sink client exists and whatever
\* put_metric_data does, record_latency and record_http_status return
\* normally and the caller receives the handler's response with its status
\* unchanged.
C8_Original ==
    pc = "sent" =>
        /\ sent.latency # "raised"
        /\ sent.http_status # "raised"
        /\ sent.status = sent.status_code

\* what a get-by-id of the created type answers once the create step is done
GetAfter(op, i) ==
    CASE op = "crear_cliente" -> ClienteGet(i)'
      [] op = "crear_domicilio" -> DomicilioGet(i)'
      [] OTHER -> ProductoGet(i)'

\* the parent id a created Domicilio takes from the path
FromPath(r) ==
    IF r.op = "crear_domicilio" THEN [cliente_id |-> r.id] ELSE <<>>

\* the create step answered 201 with an id and the field values fv, and a
\* get-by-id with that id answers 200 with the same id and values
RoundTrip(fv) ==
    /\ resp'.status = 201
    /\ \E i \in Ids :
          /\ resp'.body = <<Entity(i, fv @@ FromPath(req'))>>
          /\ GetAfter(req'.op, i) = [status |-> 200, body |-> resp'.body]

\* C9 as stated: a create request with a valid payload answers 201 with a
\* body that carries an assigned id and the submitted field values, and a
\* get-by-id with that id issued next answers 200 with the same id and values.
C9_Original ==
    [][(pc' = "handled" /\ req'.op \in CreateOps
            /\ BodyAccepted(req'.op, req'.body))
        => RoundTrip([f \in DOMAIN req'.body |-> req'.body[f].v])]_vars

\* C9: a create request with a valid payload (for a Client an rfc no stored
\* client holds, for an Address an existing parent client) answers 201 with a
\* body that carries an assigned id and the field values as validated (the
\* email normalised), and a get-by-id with that id issued next answers 200
\* with the same id and the same field values.
C9_RoundTrip ==
    [][(pc' = "handled" /\ req'.op \in CreateOps
            /\ BodyAccepted(req'.op, req'.body)
            /\ (req'.op = "crear_cliente" => ~RfcTaken(req'.body.rfc.v, 0))
            /\ (req'.op = "crear_domicilio" => req'.id \in DOMAIN clientes))
        => RoundTrip([f \in DOMAIN req'.body |->
                         StoredAs(f, req'.body[f].v)])]_vars

\* a client was created from an email whose domain is in upper case
C9_Witness ==
    /\ pc = "handled" /\ req.op = "crear_cliente" /\ resp.status = 201
    /\ req.body.correo_electronico = Val(E1U)
    /\ ClienteGet(resp.body[1].id) = [status |-> 200, body |-> resp.body]

\* C10 as stated: the id assigned to a newly created entity is strictly
\* greater than every id assigned before to an entity of its type, the one
\* assigned last among them, so the id of a deleted entity is never assigned
\* again.
C10_Original ==
    [][(pc' = "handled" /\ req'.op \in CreateOps /\ resp'.status = 201)
        => /\ resp'.body[1].id \notin DOMAIN Table(req'.op)
           /\ resp'.body[1].id > last_id[TableName(req'.op)]]_vars


\* what a get-by-id of the route's type answers once the step is done
GetNext(op, i) ==
    CASE TableName(op) = "clientes" -> ClienteGet(i)'
      [] TableName(op) = "domicilios" -> DomicilioGet(i)'
      [] OTHER -> ProductoGet(i)'

\* the rows a delete of entity id removes: the entity, and with a client the
\* addresses that belong to it
Removed(op, id) ==
    {<<TableName(op), id>>} \cup
    IF op = "eliminar_cliente"
    THEN {<<"domicilios", d>> : d \in {e \in DOMAIN domicilios :
                                          domicilios[e].cliente_id = id}}
    ELSE {}

\* table after holds the rows of table before that are not in gone, unchanged
Kept(name, before, after, gone) ==
    /\ DOMAIN after = {k \in DOMAIN before : <<name, k>> \notin gone}
    /\ \A k \in DOMAIN after : after[k] = before[k]

\* C11: a delete of an existing Client, Address or Product answers 204, a
\* get-by-id for the same id issued right after answers 404, and every stored
\* entity other than the deleted one and the addresses cascaded from a
\* deleted client is unchanged.
C11_DeleteRemoves ==
    [][(pc' = "handled" /\ req'.op \in DeleteOps
            /\ req'.id \in DOMAIN Table(req'.op)) =>
        /\ resp'.status = 204
        /\ \E i \in Ids : i = req'.id /\ GetNext(req'.op, i).status = 404
        /\ Kept("clientes", clientes, clientes', Removed(req'.op, req'.id))
        /\ Kept("domicilios", domicilios, domicilios',
                Removed(req'.op, req'.id))
        /\ Kept("productos", productos, productos',
                Removed(req'.op, req'.id))]_vars

\* an address was deleted while its client and another address stay stored
C11_Witness ==
    /\ pc = "handled" /\ req.op = "eliminar_domicilio" /\ resp.status = 204
    /\ DomicilioGet(req.id).status = 404
    /\ domicilios # <<>> /\ clientes # <<>>


\* C12 as stated: in every state reached by crear_cliente and
\* actualizar_cliente calls the rfc of every stored client matches the tax ID
\* pattern.
C12_Original ==
    \A c \in DOMAIN clientes : RfcPattern(clientes[c].rfc)


\* C13 as stated: GET /health always answers 200 with status "healthy",
\* whatever the store holds and whatever the state of the metrics sink: the
\* route produces that response and the caller receives it.
C13_Original ==
    /\ (pc = "handled" /\ req.op = "health_check") =>
           resp = [status |-> 200, body |-> <<[status |-> "healthy"]>>]
    /\ (pc = "sent" /\ sent.endpoint = "health_check") => sent.status = 200


\* ------------------------------------------------- the list routes in use
Skips == 0..MaxId
Limits == (0..MaxId) \cup {DefaultLimit}

NextList ==
    \/ \E b \in ClienteCreateBodies : crear_cliente(b)
    \/ \E id \in Ids, b \in ClienteUpdateBodies : actualizar_cliente(id, b)
    \/ \E id \in Ids : eliminar_cliente(id)
    \/ \E b \in ProductoCreateBodies : crear_producto(b)
    \/ \E id \in Ids : eliminar_producto(id)
    \/ \E skip \in Skips, limit \in Limits :
           \E o \in Query(clientes) : listar_clientes(skip, limit, o)
    \/ \E skip \in Skips, limit \in Limits :
           \E o \in Query(productos) : listar_productos(skip, limit, o)
    \/ \E o1 \in PutOutcomes, o2 \in PutOutcomes : metrics_middleware(o1, o2)
    \/ get_db

SpecList == Init /\ [][NextList]_vars

ListOps == {"listar_clientes", "listar_productos"}

\* the rows of the type a list route returns
ListTable(op) == IF op = "listar_clientes" THEN clientes ELSE productos

\* body holds, in the order o, the stored entities of rows with the first
\* skip dropped and at most limit kept
IsPage(body, rows, o, skip, limit) ==
    /\ Len(body) = IF Len(o) - skip < limit
                   THEN (IF Len(o) > skip THEN Len(o) - skip ELSE 0)
                   ELSE limit
    /\ \A k \in 1..Len(body) : body[k] = Entity(o[skip + k], rows[o[skip + k]])

\* C14 as stated: for skip >= 0 and limit >= 0 listar_clientes and
\* listar_productos answer the stored collection with its first skip entities
\* dropped and at most limit kept, no entity twice, and with skip 0 and limit
\* 100 a store of at most 100 entities in full.
C14_Original ==
    [][(pc' = "handled" /\ req'.op \in ListOps
            /\ req'.body.skip >= 0 /\ req'.body.limit >= 0) =>
        /\ resp'.status = 200
        /\ \E o \in Orders(DOMAIN ListTable(req'.op)) :
               IsPage(resp'.body, ListTable(req'.op), o,
                      req'.body.skip, req'.body.limit)
        /\ \A i, j \in 1..Len(resp'.body) :
               resp'.body[i].id = resp'.body[j].id => i = j
        /\ (/\ req'.body.skip = DefaultSkip /\ req'.body.limit = DefaultLimit
            /\ Cardinality(DOMAIN ListTable(req'.op)) <= 100)
           => {resp'.body[k].id : k \in 1..Len(resp'.body)} =
                  DOMAIN ListTable(req'.op)]_vars


\* ------------------------------------------ requests served concurrently
\* Sync routes run in the thread pool, each with its own session (get_db);
\* a session's statements interleave with those of the other sessions.
MaxSessions == 2
Sessions == 1..MaxSessions

NoSession == [op |-> "none", id |-> 0, at |-> "idle", cascade |-> {},
              status |-> 0]

InitRace ==
    /\ backend \in Backends
    /\ cloudwatch = FALSE
    /\ clientes = <<>>
    /\ domicilios = <<>>
    /\ productos = <<>>
    /\ last_id = [clientes |-> 0, domicilios |-> 0, productos |-> 0]
    /\ pc = "idle"
    /\ req = NoReq
    /\ resp = NoResp
    /\ deleted = {}
    /\ sent = NoSent
    /\ inflight = [s \in Sessions |-> NoSession]

\* a step of session s that leaves the session at position at
Step(s, op, id, at, cascade, status) ==
    /\ inflight' = [inflight EXCEPT ![s] =
           [op |-> op, id |-> id, at |-> at, cascade |-> cascade,
            status |-> status]]
    /\ UNCHANGED <<backend, cloudwatch, productos, pc, req, resp, deleted, sent>>

\* ForeignKey("clientes.id"): postgresql refuses a commit that leaves an
\* address without its client; sqlite does not enforce foreign keys unless
\* PRAGMA foreign_keys is set, and database.py does not set it
ForeignKeys == backend = "postgresql"

\* crear_domicilio: cliente = db.query(Cliente)...first(); if not cliente: 404
crear_domicilio_query(s, cliente_id) ==
    /\ inflight[s].at = "idle"
    /\ IF cliente_id \notin DOMAIN clientes
       THEN Step(s, "crear_domicilio", cliente_id, "done", {}, 404)
       ELSE Step(s, "crear_domicilio", cliente_id, "add", {}, 0)
    /\ UNCHANGED <<store, last_id>>

\* crear_domicilio: db.add(db_domicilio); db.commit()
crear_domicilio_commit(s) ==
    /\ inflight[s].at = "add"
    /\ CanInsert(domicilios, "domicilios")
    /\ LET cliente_id == inflight[s].id
           row == model_dump(DomicilioBody) @@ [cliente_id |-> cliente_id]
           id == NextId(domicilios, "domicilios")
       IN  IF ForeignKeys /\ cliente_id \notin DOMAIN clientes
           THEN /\ Step(s, "crear_domicilio", cliente_id, "done", {}, 500)
                /\ RolledBack("domicilios")
                /\ UNCHANGED store
           ELSE /\ Step(s, "crear_domicilio", cliente_id, "done", {}, 201)
                /\ Assigned("domicilios", id)
                /\ domicilios' = (id :> row) @@ domicilios
                /\ UNCHANGED clientes

\* eliminar_cliente: db_cliente = db.query(Cliente)...first(); if not: 404
eliminar_cliente_query(s, cliente_id) ==
    /\ inflight[s].at = "idle"
    /\ IF cliente_id \notin DOMAIN clientes
       THEN Step(s, "eliminar_cliente", cliente_id, "done", {}, 404)
       ELSE Step(s, "eliminar_cliente", cliente_id, "delete", {}, 0)
    /\ UNCHANGED <<store, last_id>>

\* eliminar_cliente: db.delete(db_cliente) loads db_cliente.domicilios to
\* cascade the delete to them
eliminar_cliente_delete(s) ==
    /\ inflight[s].at = "delete"
    /\ Step(s, "eliminar_cliente", inflight[s].id, "commit",
            {d \in DOMAIN domicilios :
                domicilios[d].cliente_id = inflight[s].id}, 0)
    /\ UNCHANGED <<store, last_id>>

\* eliminar_cliente: db.commit() deletes the loaded addresses and the client
eliminar_cliente_commit(s) ==
    /\ inflight[s].at = "commit"
    /\ LET cliente_id == inflight[s].id
           stay == {d \in DOMAIN domicilios : d \notin inflight[s].cascade}
       IN  IF ForeignKeys /\ \E d \in stay : domicilios[d].cliente_id = cliente_id
           THEN /\ Step(s, "eliminar_cliente", cliente_id, "done", {}, 500)
                /\ UNCHANGED store
           ELSE /\ Step(s, "eliminar_cliente", cliente_id, "done", {}, 204)
                /\ domicilios' = [d \in stay |-> domicilios[d]]
                /\ clientes' =
                       [c \in DOMAIN clientes \ {cliente_id} |-> clientes[c]]
    /\ UNCHANGED last_id

\* get_db: finally db.close(), the response has been returned
close(s) ==
    /\ inflight[s].at = "done"
    /\ Step(s, "none", 0, "idle", {}, 0)
    /\ UNCHANGED <<store, last_id>>

NextRace ==
    \/ \E b \in {ClienteBody, [ClienteBody EXCEPT !.rfc = Val(RFC2)]} :
           crear_cliente(b)
    \/ \E o1 \in PutOutcomes, o2 \in PutOutcomes : metrics_middleware(o1, o2)
    \/ get_db
    \/ \E s \in Sessions, c \in Ids : crear_domicilio_query(s, c)
    \/ \E s \in Sessions : crear_domicilio_commit(s)
    \/ \E s \in Sessions, c \in Ids : eliminar_cliente_query(s, c)
    \/ \E s \in Sessions : eliminar_cliente_delete(s)
    \/ \E s \in Sessions : eliminar_cliente_commit(s)
    \/ \E s \in Sessions : close(s)

SpecRace == InitRace /\ [][NextRace]_vars

\* C15 as stated: in every reachable state, those reached when the steps of
\* concurrent crear_domicilio and eliminar_cliente requests interleave
\* included, every stored address has a cliente_id that names a stored
\* client.
C15_Original ==
    \A d \in DOMAIN domicilios : domicilios[d].cliente_id \in DOMAIN clientes

====
